---- MODULE Spec2Model ----
(***************************************************************************)
(* Model of the idle-tab archiver (tab_archiver_working.py, Debug_tag.py). *)
(*                                                                         *)
(* A Python str is the sequence of its characters, each the integer ord()  *)
(* gives (its Unicode code point), so that the filename sanitizer is       *)
(* computed character by character as the regular expressions of the       *)
(* source compute it, over the whole of Unicode.  A URL is a sequence of   *)
(* tokens                                                                  *)
(* whose first token is its scheme prefix ("https://", "chrome://", ...).  *)
(* A datetime is an integer number of ticks since CHROME_EPOCH; a day is   *)
(* TicksPerDay ticks.                                                      *)
(***************************************************************************)
EXTENDS Integers, Sequences, FiniteSets, TLC

VARIABLES
    \* ---- safe_filename, applied as a pure function --------------------
    text,         \* the argument text
    max_length,   \* the argument max_length
    result,       \* the returned string, NoResult before the call
    \* ---- configuration and environment -------------------------------
    dry_run,      \* Config.dry_run
    days_idle,    \* Config.days_idle
    tabs,         \* what get_open_tabs returned
    page_tabs,    \* the tabs of type "page"
    \* ---- process_tabs / snap_and_close_tab control -------------------
    pc,           \* position in process_tabs / snap_and_close_tab
    run,          \* number of the current run of process_tabs (same day)
    fetched,      \* tabs the endpoint has returned over the runs of the day
    i,            \* index of the current tab in page_tabs
    pdf_path,     \* the file name chosen for the current tab
    attempt,      \* the loop variable of snap_and_close_tab
    session,      \* number of open rendering sessions
    processed,    \* the local counter of process_tabs
    ret,          \* the pair process_tabs returned, NoResult while running
    \* ---- file system and network --------------------------------------
    day_dir,      \* the day folder exists
    index,        \* index.html exists
    tmp_history,  \* the temporary history copies on disk: each by how many
                  \* seconds its name history_tmp_<int(time.time())> lies
                  \* before the one of the current run
    disk,         \* names of the PDF files in the day folder
    rows,         \* the rows appended to index.html, in order
    closes,       \* tab ids of the close requests sent in this run, in order
    \* ---- history of the current run (read by the properties only) -----
    created,      \* kinds of file system objects this run created
    selected,     \* ids of the tabs that passed the staleness filter
    visited,      \* ids of the page tabs the loop has looked at
    wrote,        \* ids of the tabs for which page.pdf wrote the file
    failed,       \* ids of the tabs whose snap_and_close_tab returned False
    tries,        \* render attempts made for the current tab
    sleeps,       \* asyncio.sleep calls made for the current tab
    any_fail,     \* some render attempt of this run raised
    abort,        \* why the run returned early, "none" otherwise
    row0,         \* Len(rows) when the run started
    db_errors     \* ids of the tabs whose history lookup raised sqlite3.Error

fnvars  == <<text, max_length, result>>
cfgvars == <<dry_run, days_idle, tabs, page_tabs>>
ctlvars == <<pc, run, fetched, i, pdf_path, attempt, session, processed, ret>>
fsvars  == <<day_dir, index, tmp_history, disk, rows, closes>>
logvars == <<created, selected, visited, wrote, failed, tries, sleeps,
             any_fail, abort, row0, db_errors>>
vars    == <<fnvars, cfgvars, ctlvars, fsvars, logvars>>

NoResult == "none"

(***************************************************************************)
(* Bounds of the model.                                                    *)
(***************************************************************************)
MaxTextLen  == 3   \* texts over the whole Alphabet, up to this length
MaxChunks   == 4   \* longer texts: up to this many Chunks in a row
MaxTabs     == 2   \* tabs the endpoint returns over the runs of a day
MaxRuns     == 2   \* runs of process_tabs on the same day
TicksPerDay == 4   \* resolution of the clock

(***************************************************************************)
(* Program constants.                                                      *)
(***************************************************************************)
max_filename_length == 80
max_retries         == 3
CHROME_EPOCH        == 0
DefaultDays         == 14
StemMargin          == 10
debug_max_length    == 30

Min(a, b) == IF a < b THEN a ELSE b
Max(a, b) == IF a > b THEN a ELSE b

(***************************************************************************)
(* safe_filename                                                           *)
(***************************************************************************)
\* ord() of the ASCII characters the source and the inputs write out
Ord == ("<" :> 60) @@ (">" :> 62) @@ (":" :> 58) @@ ("\"" :> 34) @@ ("/" :> 47)
       @@ ("\\" :> 92) @@ ("|" :> 124) @@ ("?" :> 63) @@ ("*" :> 42)
       @@ ("_" :> 95) @@ ("." :> 46) @@ ("-" :> 45) @@ (" " :> 32)
       @@ ("!" :> 33) @@ ("\t" :> 9) @@ ("\f" :> 12)
       @@ ("0" :> 48) @@ ("1" :> 49) @@ ("2" :> 50) @@ ("3" :> 51)
       @@ ("4" :> 52) @@ ("5" :> 53) @@ ("6" :> 54) @@ ("7" :> 55)
       @@ ("8" :> 56) @@ ("9" :> 57)
       @@ ("a" :> 97) @@ ("A" :> 65) @@ ("d" :> 100) @@ ("e" :> 101)
       @@ ("f" :> 102) @@ ("i" :> 105) @@ ("l" :> 108) @@ ("n" :> 110)
       @@ ("p" :> 112) @@ ("t" :> 116) @@ ("u" :> 117)

\* a str literal of the source, as the sequence of its characters
Str(cs) == [k \in 1..Len(cs) |-> Ord[cs[k]]]

\* the class [<>:"/\\|?*]
Reserved == {Ord[c] : c \in {"<", ">", ":", "\"", "/", "\\", "|", "?", "*"}}

\* \w of a str pattern: the characters c with c.isalnum() or c == '_', as
\* the ranges <<first, last>> of their code points (Unicode 14.0, the
\* tables of the interpreter)
WordRanges ==
    { <<48, 57>>, <<65, 90>>, <<95, 95>>, <<97, 122>>, <<170, 170>>,
      <<178, 179>>, <<181, 181>>, <<185, 186>>, <<188, 190>>,
      <<192, 214>>, <<216, 246>>, <<248, 705>>, <<710, 721>>,
      <<736, 740>>, <<748, 748>>, <<750, 750>>, <<880, 884>>,
      <<886, 887>>, <<890, 893>>, <<895, 895>>, <<902, 902>>,
      <<904, 906>>, <<908, 908>>, <<910, 929>>, <<931, 1013>>,
      <<1015, 1153>>, <<1162, 1327>>, <<1329, 1366>>, <<1369, 1369>>,
      <<1376, 1416>>, <<1488, 1514>>, <<1519, 1522>>, <<1568, 1610>>,
      <<1632, 1641>>, <<1646, 1647>>, <<1649, 1747>>, <<1749, 1749>>,
      <<1765, 1766>>, <<1774, 1788>>, <<1791, 1791>>, <<1808, 1808>>,
      <<1810, 1839>>, <<1869, 1957>>, <<1969, 1969>>, <<1984, 2026>>,
      <<2036, 2037>>, <<2042, 2042>>, <<2048, 2069>>, <<2074, 2074>>,
      <<2084, 2084>>, <<2088, 2088>>, <<2112, 2136>>, <<2144, 2154>>,
      <<2160, 2183>>, <<2185, 2190>>, <<2208, 2249>>, <<2308, 2361>>,
      <<2365, 2365>>, <<2384, 2384>>, <<2392, 2401>>, <<2406, 2415>>,
      <<2417, 2432>>, <<2437, 2444>>, <<2447, 2448>>, <<2451, 2472>>,
      <<2474, 2480>>, <<2482, 2482>>, <<2486, 2489>>, <<2493, 2493>>,
      <<2510, 2510>>, <<2524, 2525>>, <<2527, 2529>>, <<2534, 2545>>,
      <<2548, 2553>>, <<2556, 2556>>, <<2565, 2570>>, <<2575, 2576>>,
      <<2579, 2600>>, <<2602, 2608>>, <<2610, 2611>>, <<2613, 2614>>,
      <<2616, 2617>>, <<2649, 2652>>, <<2654, 2654>>, <<2662, 2671>>,
      <<2674, 2676>>, <<2693, 2701>>, <<2703, 2705>>, <<2707, 2728>>,
      <<2730, 2736>>, <<2738, 2739>>, <<2741, 2745>>, <<2749, 2749>>,
      <<2768, 2768>>, <<2784, 2785>>, <<2790, 2799>>, <<2809, 2809>>,
      <<2821, 2828>>, <<2831, 2832>>, <<2835, 2856>>, <<2858, 2864>>,
      <<2866, 2867>>, <<2869, 2873>>, <<2877, 2877>>, <<2908, 2909>>,
      <<2911, 2913>>, <<2918, 2927>>, <<2929, 2935>>, <<2947, 2947>>,
      <<2949, 2954>>, <<2958, 2960>>, <<2962, 2965>>, <<2969, 2970>>,
      <<2972, 2972>>, <<2974, 2975>>, <<2979, 2980>>, <<2984, 2986>>,
      <<2990, 3001>>, <<3024, 3024>>, <<3046, 3058>>, <<3077, 3084>>,
      <<3086, 3088>>, <<3090, 3112>>, <<3114, 3129>>, <<3133, 3133>>,
      <<3160, 3162>>, <<3165, 3165>>, <<3168, 3169>>, <<3174, 3183>>,
      <<3192, 3198>>, <<3200, 3200>>, <<3205, 3212>>, <<3214, 3216>>,
      <<3218, 3240>>, <<3242, 3251>>, <<3253, 3257>>, <<3261, 3261>>,
      <<3293, 3294>>, <<3296, 3297>>, <<3302, 3311>>, <<3313, 3314>>,
      <<3332, 3340>>, <<3342, 3344>>, <<3346, 3386>>, <<3389, 3389>>,
      <<3406, 3406>>, <<3412, 3414>>, <<3416, 3425>>, <<3430, 3448>>,
      <<3450, 3455>>, <<3461, 3478>>, <<3482, 3505>>, <<3507, 3515>>,
      <<3517, 3517>>, <<3520, 3526>>, <<3558, 3567>>, <<3585, 3632>>,
      <<3634, 3635>>, <<3648, 3654>>, <<3664, 3673>>, <<3713, 3714>>,
      <<3716, 3716>>, <<3718, 3722>>, <<3724, 3747>>, <<3749, 3749>>,
      <<3751, 3760>>, <<3762, 3763>>, <<3773, 3773>>, <<3776, 3780>>,
      <<3782, 3782>>, <<3792, 3801>>, <<3804, 3807>>, <<3840, 3840>>,
      <<3872, 3891>>, <<3904, 3911>>, <<3913, 3948>>, <<3976, 3980>>,
      <<4096, 4138>>, <<4159, 4169>>, <<4176, 4181>>, <<4186, 4189>>,
      <<4193, 4193>>, <<4197, 4198>>, <<4206, 4208>>, <<4213, 4225>>,
      <<4238, 4238>>, <<4240, 4249>>, <<4256, 4293>>, <<4295, 4295>>,
      <<4301, 4301>>, <<4304, 4346>>, <<4348, 4680>>, <<4682, 4685>>,
      <<4688, 4694>>, <<4696, 4696>>, <<4698, 4701>>, <<4704, 4744>>,
      <<4746, 4749>>, <<4752, 4784>>, <<4786, 4789>>, <<4792, 4798>>,
      <<4800, 4800>>, <<4802, 4805>>, <<4808, 4822>>, <<4824, 4880>>,
      <<4882, 4885>>, <<4888, 4954>>, <<4969, 4988>>, <<4992, 5007>>,
      <<5024, 5109>>, <<5112, 5117>>, <<5121, 5740>>, <<5743, 5759>>,
      <<5761, 5786>>, <<5792, 5866>>, <<5870, 5880>>, <<5888, 5905>>,
      <<5919, 5937>>, <<5952, 5969>>, <<5984, 5996>>, <<5998, 6000>>,
      <<6016, 6067>>, <<6103, 6103>>, <<6108, 6108>>, <<6112, 6121>>,
      <<6128, 6137>>, <<6160, 6169>>, <<6176, 6264>>, <<6272, 6276>>,
      <<6279, 6312>>, <<6314, 6314>>, <<6320, 6389>>, <<6400, 6430>>,
      <<6470, 6509>>, <<6512, 6516>>, <<6528, 6571>>, <<6576, 6601>>,
      <<6608, 6618>>, <<6656, 6678>>, <<6688, 6740>>, <<6784, 6793>>,
      <<6800, 6809>>, <<6823, 6823>>, <<6917, 6963>>, <<6981, 6988>>,
      <<6992, 7001>>, <<7043, 7072>>, <<7086, 7141>>, <<7168, 7203>>,
      <<7232, 7241>>, <<7245, 7293>>, <<7296, 7304>>, <<7312, 7354>>,
      <<7357, 7359>>, <<7401, 7404>>, <<7406, 7411>>, <<7413, 7414>>,
      <<7418, 7418>>, <<7424, 7615>>, <<7680, 7957>>, <<7960, 7965>>,
      <<7968, 8005>>, <<8008, 8013>>, <<8016, 8023>>, <<8025, 8025>>,
      <<8027, 8027>>, <<8029, 8029>>, <<8031, 8061>>, <<8064, 8116>>,
      <<8118, 8124>>, <<8126, 8126>>, <<8130, 8132>>, <<8134, 8140>>,
      <<8144, 8147>>, <<8150, 8155>>, <<8160, 8172>>, <<8178, 8180>>,
      <<8182, 8188>>, <<8304, 8305>>, <<8308, 8313>>, <<8319, 8329>>,
      <<8336, 8348>>, <<8450, 8450>>, <<8455, 8455>>, <<8458, 8467>>,
      <<8469, 8469>>, <<8473, 8477>>, <<8484, 8484>>, <<8486, 8486>>,
      <<8488, 8488>>, <<8490, 8493>>, <<8495, 8505>>, <<8508, 8511>>,
      <<8517, 8521>>, <<8526, 8526>>, <<8528, 8585>>, <<9312, 9371>>,
      <<9450, 9471>>, <<10102, 10131>>, <<11264, 11492>>,
      <<11499, 11502>>, <<11506, 11507>>, <<11517, 11517>>,
      <<11520, 11557>>, <<11559, 11559>>, <<11565, 11565>>,
      <<11568, 11623>>, <<11631, 11631>>, <<11648, 11670>>,
      <<11680, 11686>>, <<11688, 11694>>, <<11696, 11702>>,
      <<11704, 11710>>, <<11712, 11718>>, <<11720, 11726>>,
      <<11728, 11734>>, <<11736, 11742>>, <<11823, 11823>>,
      <<12293, 12295>>, <<12321, 12329>>, <<12337, 12341>>,
      <<12344, 12348>>, <<12353, 12438>>, <<12445, 12447>>,
      <<12449, 12538>>, <<12540, 12543>>, <<12549, 12591>>,
      <<12593, 12686>>, <<12690, 12693>>, <<12704, 12735>>,
      <<12784, 12799>>, <<12832, 12841>>, <<12872, 12879>>,
      <<12881, 12895>>, <<12928, 12937>>, <<12977, 12991>>,
      <<13312, 19903>>, <<19968, 42124>>, <<42192, 42237>>,
      <<42240, 42508>>, <<42512, 42539>>, <<42560, 42606>>,
      <<42623, 42653>>, <<42656, 42735>>, <<42775, 42783>>,
      <<42786, 42888>>, <<42891, 42954>>, <<42960, 42961>>,
      <<42963, 42963>>, <<42965, 42969>>, <<42994, 43009>>,
      <<43011, 43013>>, <<43015, 43018>>, <<43020, 43042>>,
      <<43056, 43061>>, <<43072, 43123>>, <<43138, 43187>>,
      <<43216, 43225>>, <<43250, 43255>>, <<43259, 43259>>,
      <<43261, 43262>>, <<43264, 43301>>, <<43312, 43334>>,
      <<43360, 43388>>, <<43396, 43442>>, <<43471, 43481>>,
      <<43488, 43492>>, <<43494, 43518>>, <<43520, 43560>>,
      <<43584, 43586>>, <<43588, 43595>>, <<43600, 43609>>,
      <<43616, 43638>>, <<43642, 43642>>, <<43646, 43695>>,
      <<43697, 43697>>, <<43701, 43702>>, <<43705, 43709>>,
      <<43712, 43712>>, <<43714, 43714>>, <<43739, 43741>>,
      <<43744, 43754>>, <<43762, 43764>>, <<43777, 43782>>,
      <<43785, 43790>>, <<43793, 43798>>, <<43808, 43814>>,
      <<43816, 43822>>, <<43824, 43866>>, <<43868, 43881>>,
      <<43888, 44002>>, <<44016, 44025>>, <<44032, 55203>>,
      <<55216, 55238>>, <<55243, 55291>>, <<63744, 64109>>,
      <<64112, 64217>>, <<64256, 64262>>, <<64275, 64279>>,
      <<64285, 64285>>, <<64287, 64296>>, <<64298, 64310>>,
      <<64312, 64316>>, <<64318, 64318>>, <<64320, 64321>>,
      <<64323, 64324>>, <<64326, 64433>>, <<64467, 64829>>,
      <<64848, 64911>>, <<64914, 64967>>, <<65008, 65019>>,
      <<65136, 65140>>, <<65142, 65276>>, <<65296, 65305>>,
      <<65313, 65338>>, <<65345, 65370>>, <<65382, 65470>>,
      <<65474, 65479>>, <<65482, 65487>>, <<65490, 65495>>,
      <<65498, 65500>>, <<65536, 65547>>, <<65549, 65574>>,
      <<65576, 65594>>, <<65596, 65597>>, <<65599, 65613>>,
      <<65616, 65629>>, <<65664, 65786>>, <<65799, 65843>>,
      <<65856, 65912>>, <<65930, 65931>>, <<66176, 66204>>,
      <<66208, 66256>>, <<66273, 66299>>, <<66304, 66339>>,
      <<66349, 66378>>, <<66384, 66421>>, <<66432, 66461>>,
      <<66464, 66499>>, <<66504, 66511>>, <<66513, 66517>>,
      <<66560, 66717>>, <<66720, 66729>>, <<66736, 66771>>,
      <<66776, 66811>>, <<66816, 66855>>, <<66864, 66915>>,
      <<66928, 66938>>, <<66940, 66954>>, <<66956, 66962>>,
      <<66964, 66965>>, <<66967, 66977>>, <<66979, 66993>>,
      <<66995, 67001>>, <<67003, 67004>>, <<67072, 67382>>,
      <<67392, 67413>>, <<67424, 67431>>, <<67456, 67461>>,
      <<67463, 67504>>, <<67506, 67514>>, <<67584, 67589>>,
      <<67592, 67592>>, <<67594, 67637>>, <<67639, 67640>>,
      <<67644, 67644>>, <<67647, 67669>>, <<67672, 67702>>,
      <<67705, 67742>>, <<67751, 67759>>, <<67808, 67826>>,
      <<67828, 67829>>, <<67835, 67867>>, <<67872, 67897>>,
      <<67968, 68023>>, <<68028, 68047>>, <<68050, 68096>>,
      <<68112, 68115>>, <<68117, 68119>>, <<68121, 68149>>,
      <<68160, 68168>>, <<68192, 68222>>, <<68224, 68255>>,
      <<68288, 68295>>, <<68297, 68324>>, <<68331, 68335>>,
      <<68352, 68405>>, <<68416, 68437>>, <<68440, 68466>>,
      <<68472, 68497>>, <<68521, 68527>>, <<68608, 68680>>,
      <<68736, 68786>>, <<68800, 68850>>, <<68858, 68899>>,
      <<68912, 68921>>, <<69216, 69246>>, <<69248, 69289>>,
      <<69296, 69297>>, <<69376, 69415>>, <<69424, 69445>>,
      <<69457, 69460>>, <<69488, 69505>>, <<69552, 69579>>,
      <<69600, 69622>>, <<69635, 69687>>, <<69714, 69743>>,
      <<69745, 69746>>, <<69749, 69749>>, <<69763, 69807>>,
      <<69840, 69864>>, <<69872, 69881>>, <<69891, 69926>>,
      <<69942, 69951>>, <<69956, 69956>>, <<69959, 69959>>,
      <<69968, 70002>>, <<70006, 70006>>, <<70019, 70066>>,
      <<70081, 70084>>, <<70096, 70106>>, <<70108, 70108>>,
      <<70113, 70132>>, <<70144, 70161>>, <<70163, 70187>>,
      <<70272, 70278>>, <<70280, 70280>>, <<70282, 70285>>,
      <<70287, 70301>>, <<70303, 70312>>, <<70320, 70366>>,
      <<70384, 70393>>, <<70405, 70412>>, <<70415, 70416>>,
      <<70419, 70440>>, <<70442, 70448>>, <<70450, 70451>>,
      <<70453, 70457>>, <<70461, 70461>>, <<70480, 70480>>,
      <<70493, 70497>>, <<70656, 70708>>, <<70727, 70730>>,
      <<70736, 70745>>, <<70751, 70753>>, <<70784, 70831>>,
      <<70852, 70853>>, <<70855, 70855>>, <<70864, 70873>>,
      <<71040, 71086>>, <<71128, 71131>>, <<71168, 71215>>,
      <<71236, 71236>>, <<71248, 71257>>, <<71296, 71338>>,
      <<71352, 71352>>, <<71360, 71369>>, <<71424, 71450>>,
      <<71472, 71483>>, <<71488, 71494>>, <<71680, 71723>>,
      <<71840, 71922>>, <<71935, 71942>>, <<71945, 71945>>,
      <<71948, 71955>>, <<71957, 71958>>, <<71960, 71983>>,
      <<71999, 71999>>, <<72001, 72001>>, <<72016, 72025>>,
      <<72096, 72103>>, <<72106, 72144>>, <<72161, 72161>>,
      <<72163, 72163>>, <<72192, 72192>>, <<72203, 72242>>,
      <<72250, 72250>>, <<72272, 72272>>, <<72284, 72329>>,
      <<72349, 72349>>, <<72368, 72440>>, <<72704, 72712>>,
      <<72714, 72750>>, <<72768, 72768>>, <<72784, 72812>>,
      <<72818, 72847>>, <<72960, 72966>>, <<72968, 72969>>,
      <<72971, 73008>>, <<73030, 73030>>, <<73040, 73049>>,
      <<73056, 73061>>, <<73063, 73064>>, <<73066, 73097>>,
      <<73112, 73112>>, <<73120, 73129>>, <<73440, 73458>>,
      <<73648, 73648>>, <<73664, 73684>>, <<73728, 74649>>,
      <<74752, 74862>>, <<74880, 75075>>, <<77712, 77808>>,
      <<77824, 78894>>, <<82944, 83526>>, <<92160, 92728>>,
      <<92736, 92766>>, <<92768, 92777>>, <<92784, 92862>>,
      <<92864, 92873>>, <<92880, 92909>>, <<92928, 92975>>,
      <<92992, 92995>>, <<93008, 93017>>, <<93019, 93025>>,
      <<93027, 93047>>, <<93053, 93071>>, <<93760, 93846>>,
      <<93952, 94026>>, <<94032, 94032>>, <<94099, 94111>>,
      <<94176, 94177>>, <<94179, 94179>>, <<94208, 100343>>,
      <<100352, 101589>>, <<101632, 101640>>, <<110576, 110579>>,
      <<110581, 110587>>, <<110589, 110590>>, <<110592, 110882>>,
      <<110928, 110930>>, <<110948, 110951>>, <<110960, 111355>>,
      <<113664, 113770>>, <<113776, 113788>>, <<113792, 113800>>,
      <<113808, 113817>>, <<119520, 119539>>, <<119648, 119672>>,
      <<119808, 119892>>, <<119894, 119964>>, <<119966, 119967>>,
      <<119970, 119970>>, <<119973, 119974>>, <<119977, 119980>>,
      <<119982, 119993>>, <<119995, 119995>>, <<119997, 120003>>,
      <<120005, 120069>>, <<120071, 120074>>, <<120077, 120084>>,
      <<120086, 120092>>, <<120094, 120121>>, <<120123, 120126>>,
      <<120128, 120132>>, <<120134, 120134>>, <<120138, 120144>>,
      <<120146, 120485>>, <<120488, 120512>>, <<120514, 120538>>,
      <<120540, 120570>>, <<120572, 120596>>, <<120598, 120628>>,
      <<120630, 120654>>, <<120656, 120686>>, <<120688, 120712>>,
      <<120714, 120744>>, <<120746, 120770>>, <<120772, 120779>>,
      <<120782, 120831>>, <<122624, 122654>>, <<123136, 123180>>,
      <<123191, 123197>>, <<123200, 123209>>, <<123214, 123214>>,
      <<123536, 123565>>, <<123584, 123627>>, <<123632, 123641>>,
      <<124896, 124902>>, <<124904, 124907>>, <<124909, 124910>>,
      <<124912, 124926>>, <<124928, 125124>>, <<125127, 125135>>,
      <<125184, 125251>>, <<125259, 125259>>, <<125264, 125273>>,
      <<126065, 126123>>, <<126125, 126127>>, <<126129, 126132>>,
      <<126209, 126253>>, <<126255, 126269>>, <<126464, 126467>>,
      <<126469, 126495>>, <<126497, 126498>>, <<126500, 126500>>,
      <<126503, 126503>>, <<126505, 126514>>, <<126516, 126519>>,
      <<126521, 126521>>, <<126523, 126523>>, <<126530, 126530>>,
      <<126535, 126535>>, <<126537, 126537>>, <<126539, 126539>>,
      <<126541, 126543>>, <<126545, 126546>>, <<126548, 126548>>,
      <<126551, 126551>>, <<126553, 126553>>, <<126555, 126555>>,
      <<126557, 126557>>, <<126559, 126559>>, <<126561, 126562>>,
      <<126564, 126564>>, <<126567, 126570>>, <<126572, 126578>>,
      <<126580, 126583>>, <<126585, 126588>>, <<126590, 126590>>,
      <<126592, 126601>>, <<126603, 126619>>, <<126625, 126627>>,
      <<126629, 126633>>, <<126635, 126651>>, <<127232, 127244>>,
      <<130032, 130041>>, <<131072, 173791>>, <<173824, 177976>>,
      <<177984, 178205>>, <<178208, 183969>>, <<183984, 191456>>,
      <<194560, 195101>>, <<196608, 201546>> }

WordChars == UNION {r[1]..r[2] : r \in WordRanges}

\* \s of a str pattern, which is also what str.strip() removes: the
\* characters c with c.isspace()
SpaceRanges ==
    { <<9, 13>>, <<28, 32>>, <<133, 133>>, <<160, 160>>, <<5760, 5760>>,
      <<8192, 8202>>, <<8232, 8233>>, <<8239, 8239>>, <<8287, 8287>>,
      <<12288, 12288>> }

SpaceChars == UNION {r[1]..r[2] : r \in SpaceRanges}

\* the fallback "untitled"
Untitled == Str(<<"u", "n", "t", "i", "t", "l", "e", "d">>)

\* re.sub(r'[<>:"/\\|?*]', '_', text)
ReplaceReserved(s) ==
    [k \in 1..Len(s) |-> IF s[k] \in Reserved THEN Ord["_"] ELSE s[k]]

\* the class [\w\s.-]
KeepChar(c) == c \in WordChars \/ c \in SpaceChars \/ c \in {Ord["."], Ord["-"]}

\* re.sub(r'[^\w\s.-]', '', safe)
KeepAllowed(s) == SelectSeq(s, KeepChar)

\* re.sub(r'\s+', ' ', safe)
RECURSIVE CollapseSpaces(_)
CollapseSpaces(s) ==
    IF s = <<>> THEN <<>>
    ELSE IF Head(s) \in SpaceChars
         THEN IF Len(s) > 1 /\ s[2] \in SpaceChars
              THEN CollapseSpaces(Tail(s))
              ELSE <<Ord[" "]>> \o CollapseSpaces(Tail(s))
         ELSE <<Head(s)>> \o CollapseSpaces(Tail(s))

RECURSIVE LStrip(_)
LStrip(s) ==
    IF s # <<>> /\ Head(s) \in SpaceChars THEN LStrip(Tail(s)) ELSE s

RECURSIVE RStrip(_)
RStrip(s) ==
    IF s # <<>> /\ s[Len(s)] \in SpaceChars
    THEN RStrip(SubSeq(s, 1, Len(s) - 1)) ELSE s

\* str.strip()
Strip(s) == RStrip(LStrip(s))

\* safe[:n], a Python slice: a negative n counts from the end
Slice(s, n) ==
    IF n >= 0 THEN SubSeq(s, 1, Min(n, Len(s)))
    ELSE SubSeq(s, 1, Max(Len(s) + n, 0))

\* s.rsplit(' ', 1)[0]: what precedes the last space, s when it has none
RSplitFirst(s) ==
    LET at == {k \in 1..Len(s) : s[k] = Ord[" "]}
    IN  IF at = {} THEN s
        ELSE SubSeq(s, 1, (CHOOSE k \in at : \A j \in at : j <= k) - 1)

\* mutant: the text is never cut to max_length
Truncate_None(s, n) == s

\* if len(safe) > max_length: safe = safe[:max_length].rsplit(' ', 1)[0]
Truncate(s, n) == IF Len(s) > n THEN RSplitFirst(Slice(s, n)) ELSE s

safe_filename(t, n) ==
    LET safe == Truncate(Strip(CollapseSpaces(KeepAllowed(ReplaceReserved(t)))), n)
    IN  IF safe = <<>> THEN Untitled ELSE safe

(***************************************************************************)
(* Inputs of the sanitizer: every text over Alphabet up to MaxTextLen, and *)
(* longer texts made of Chunks, so that truncation happens for max_length  *)
(* at and above the length of the fallback token.                          *)
(***************************************************************************)
\* characters of the inputs that are not ASCII: letters (Latin-1, Greek,
\* CJK) and spaces (no-break space, em space)
EAcute   == 233
Omega    == 937
Zhong    == 20013
Nbsp     == 160
EmSpace  == 8195

Alphabet == {Ord["a"], Ord["A"], EAcute, Omega, Ord[" "], Ord["\f"], Nbsp,
             EmSpace, Ord["?"], Ord["!"], Ord["-"]}
Chunks   == {<<Ord["a"], Omega, Zhong>>, <<Ord["a"], Ord[" "], Ord["A"]>>,
             <<Ord[" "], Ord["?"], Ord["!"]>>, <<EAcute, Ord["\t"], EmSpace>>}

RECURSIVE Flatten(_)
Flatten(ss) == IF ss = <<>> THEN <<>> ELSE Head(ss) \o Flatten(Tail(ss))

SeqsUpTo(S, n) == UNION {[1..k -> S] : k \in 0..n}

Texts      == SeqsUpTo(Alphabet, MaxTextLen)
                 \cup {Flatten(cs) : cs \in SeqsUpTo(Chunks, MaxChunks)}
MaxLengths == (-1)..10 \cup {debug_max_length, max_filename_length - StemMargin,
                            max_filename_length}

(***************************************************************************)
(* The clock, the history store and the tabs the endpoint may return.      *)
(***************************************************************************)
Now == 100 * TicksPerDay

\* dt.timedelta(days=d)
Days(d) == d * TicksPerDay

\* chrome_ts: the history store counts from CHROME_EPOCH
chrome_ts(ticks) == CHROME_EPOCH + ticks

\* --days: the default, and the age of the oldest last visit of History
DaysIdleValues == {DefaultDays, 20}

InternalPrefixes == {"chrome://", "chrome-extension://", "edge://", "about:"}

UrlEmpty  == <<>>
UrlChrome == <<"chrome://", "settings">>
UrlOld    == <<"https://", "old.example">>
UrlEdge   == <<"https://", "edge.example">>
UrlJust   == <<"https://", "just.example">>
UrlNew    == <<"https://", "new.example">>
UrlNone   == <<"https://", "none.example">>

UrlNull   == <<"https://", "null.example">>

\* fetchone() of an empty result, and the None get_tab_history returns
NoEntry == <<>>

\* a row (last_visit_time,) of the urls table: the column holds an integer
\* or NULL
UrlsRow(ticks) == << <<ticks>> >>
NullRow        == << <<>> >>

\* the urls table of the history store: the row of a url
History(url) ==
    CASE url = UrlOld    -> UrlsRow(Now - Days(20))
      [] url = UrlEdge   -> UrlsRow(Now - Days(DefaultDays))
      [] url = UrlJust   -> UrlsRow(Now - Days(DefaultDays) + 1)
      [] url = UrlNew    -> UrlsRow(Now - Days(1))
      [] url = UrlChrome -> UrlsRow(Now - Days(20))
      [] url = UrlNull   -> NullRow
      [] OTHER           -> NoEntry

\* chrome_ts(row[0]) of a NULL column: timedelta(microseconds=None) raises
\* TypeError, which get_tab_history does not catch
LookupRaises(url) == History(url) = NullRow

\* get_tab_history: if row: return chrome_ts(row[0]); return None; and
\* except sqlite3.Error: return None (db_ok = FALSE: the query raised).
\* The result is <<datetime>>, or NoEntry for None.
get_tab_history(url, db_ok) ==
    LET row == History(url)
    IN  IF ~db_ok THEN NoEntry
        ELSE IF row # NoEntry THEN <<chrome_ts(row[1][1])>> ELSE NoEntry

\* titles "AΩ", "AΩ_1" and "AΩ!"
TitleA  == <<Ord["A"], Omega>>
TitleA1 == <<Ord["A"], Omega, Ord["_"], Ord["1"]>>
TitleAx == <<Ord["A"], Omega, Ord["!"]>>

TabKinds ==
    { [type |-> "service_worker", url |-> UrlOld, title |-> TitleA],
      [type |-> "page", url |-> UrlEmpty,  title |-> TitleA],
      [type |-> "page", url |-> UrlChrome, title |-> TitleA],
      [type |-> "page", url |-> UrlOld,    title |-> TitleA],
      [type |-> "page", url |-> UrlEdge,   title |-> TitleAx],
      [type |-> "page", url |-> UrlJust,   title |-> TitleA],
      [type |-> "page", url |-> UrlNew,    title |-> TitleA1],
      [type |-> "page", url |-> UrlNone,   title |-> TitleA],
      [type |-> "page", url |-> UrlNull,   title |-> TitleA] }

\* a tab list of the endpoint: the id of a tab is its position in the list
TabLists ==
    { [k \in 1..Len(ks) |-> [id |-> k, type |-> ks[k].type, url |-> ks[k].url,
                             title |-> ks[k].title]] :
      ks \in SeqsUpTo(TabKinds, MaxTabs) }

TabListsUpTo(n) == {ts \in TabLists : Len(ts) <= n}

IsPage(tab) == tab.type = "page"

\* not url or url.startswith(("chrome://", "chrome-extension://", "edge://", "about:"))
IsSkippedUrl(url) == IF url = <<>> THEN TRUE ELSE url[1] \in InternalPrefixes

cutoff == Now - Days(days_idle)

\* mutant: a tab last visited exactly at the cutoff is passed over
IsFresh_Strict(last_visit, limit) == last_visit >= limit

\* last_visit > cutoff: the tab is not idle long enough
IsFresh(last_visit, limit) == last_visit > limit

(***************************************************************************)
(* The artifact path of a tab: the sanitized title, then numeric suffixes  *)
(* while the name exists in the day folder.                                *)
(***************************************************************************)
DigitChar == Str(<<"0", "1", "2", "3", "4", "5", "6", "7", "8", "9">>)

RECURSIVE Dec(_)
Dec(n) == IF n < 10 THEN <<DigitChar[n + 1]>>
          ELSE Dec(n \div 10) \o <<DigitChar[(n % 10) + 1]>>

PdfExt == Str(<<".", "p", "d", "f">>)

RECURSIVE Suffixed(_, _, _)
Suffixed(title, counter, files) ==
    LET stem == safe_filename(title, max_filename_length - StemMargin)
        path == stem \o <<Ord["_"]>> \o Dec(counter) \o PdfExt
    IN  IF path \in files THEN Suffixed(title, counter + 1, files) ELSE path

\* mutant: the name is taken without looking at the day folder
ChoosePath_NoCheck(title, files) ==
    safe_filename(title, max_filename_length) \o PdfExt

ChoosePath(title, files) ==
    LET path == safe_filename(title, max_filename_length) \o PdfExt
    IN  IF path \in files THEN Suffixed(title, 1, files) ELSE path

(***************************************************************************)
(* Initial states.                                                         *)
(***************************************************************************)
FnIdle == text = <<>> /\ max_length = 0 /\ result = NoResult

RunStart ==
    /\ tabs = <<>> /\ page_tabs = <<>>
    /\ i = 0 /\ pdf_path = <<>> /\ attempt = 0 /\ session = 0
    /\ processed = 0 /\ ret = NoResult
    /\ closes = <<>> /\ db_errors = {}
    /\ created = {} /\ selected = {} /\ visited = {} /\ wrote = {}
    /\ failed = {} /\ tries = 0 /\ sleeps = 0 /\ any_fail = FALSE
    /\ abort = "none"

\* a TabArchiver over a fresh output folder, before process_tabs is called
Init ==
    /\ FnIdle
    /\ dry_run \in BOOLEAN
    /\ days_idle \in DaysIdleValues
    /\ pc = "start" /\ run = 1 /\ fetched = 0
    /\ tmp_history = {}
    /\ day_dir = FALSE /\ index = FALSE /\ disk = {} /\ rows = <<>>
    /\ row0 = 0
    /\ RunStart

\* a call of safe_filename, before it runs
InitFn ==
    /\ text \in Texts
    /\ max_length \in MaxLengths
    /\ result = NoResult
    /\ dry_run = FALSE /\ days_idle = DefaultDays
    /\ pc = "fn" /\ run = 1 /\ fetched = 0
    /\ tmp_history = {}
    /\ day_dir = FALSE /\ index = FALSE /\ disk = {} /\ rows = <<>>
    /\ row0 = 0
    /\ RunStart

(***************************************************************************)
(* safe_filename as an operation (tab_archiver_working.py and Debug_tag.py *)
(* hold the same function body).                                           *)
(***************************************************************************)
debug_safe_filename(t, n) ==
    LET safe == Truncate(Strip(CollapseSpaces(KeepAllowed(ReplaceReserved(t)))), n)
    IN  IF safe = <<>> THEN Untitled ELSE safe

Sanitize ==
    /\ pc = "fn" /\ result = NoResult
    /\ result' = safe_filename(text, max_length)
    /\ pc' = "fn_done"
    /\ UNCHANGED <<text, max_length, cfgvars, run, fetched, i, pdf_path, attempt,
                   session, processed, ret, fsvars, logvars>>

SanitizeDebug ==
    /\ pc = "fn" /\ result = NoResult
    /\ result' = debug_safe_filename(text, max_length)
    /\ pc' = "fn_done_debug"
    /\ UNCHANGED <<text, max_length, cfgvars, run, fetched, i, pdf_path, attempt,
                   session, processed, ret, fsvars, logvars>>

(***************************************************************************)
(* process_tabs                                                            *)
(***************************************************************************)
Tab == page_tabs[i]

\* tmp_history = tempdir / f"history_tmp_{int(time.time())}": the path of
\* the current run, zero seconds before itself
ThisRun == 0

\* if not self.history_path.exists(): return 0, 0
NoHistoryFile ==
    /\ pc = "start"
    /\ ret' = <<0, 0>> /\ abort' = "no_history" /\ pc' = "done"
    /\ UNCHANGED <<fnvars, cfgvars, run, fetched, i, pdf_path, attempt, session,
                   processed, fsvars, created, selected, visited, wrote,
                   failed, tries, sleeps, any_fail, row0, db_errors>>

\* if not self.config.dry_run: day_dir.mkdir(parents=True, exist_ok=True)
MakeDayDir ==
    /\ pc = "start"
    /\ IF dry_run
       THEN UNCHANGED <<day_dir, created>>
       ELSE /\ day_dir' = TRUE
            /\ created' = IF day_dir THEN created ELSE created \cup {"day_dir"}
    /\ pc' = "fetch"
    /\ UNCHANGED <<fnvars, cfgvars, run, fetched, i, pdf_path, attempt, session,
                   processed, ret, index, tmp_history, disk, rows, closes,
                   selected, visited, wrote, failed, tries, sleeps, any_fail,
                   abort, row0, db_errors>>

\* get_open_tabs catches the RequestException and returns []; if not tabs: return 0, 0
GetOpenTabsFail ==
    /\ pc = "fetch"
    /\ ret' = <<0, 0>> /\ abort' = "connect" /\ pc' = "done"
    /\ UNCHANGED <<fnvars, cfgvars, run, fetched, i, pdf_path, attempt, session,
                   processed, fsvars, created, selected, visited, wrote,
                   failed, tries, sleeps, any_fail, row0, db_errors>>

\* tabs = await self.get_open_tabs(); page_tabs = [tab ... type == "page"]
GetOpenTabs ==
    /\ pc = "fetch"
    /\ \E ts \in TabListsUpTo(MaxTabs - fetched) :
         /\ tabs' = ts
         /\ fetched' = fetched + Len(ts)
         /\ IF ts = <<>>
            THEN /\ ret' = <<0, 0>> /\ abort' = "no_tabs" /\ pc' = "done"
                 /\ UNCHANGED page_tabs
            ELSE /\ page_tabs' = SelectSeq(ts, IsPage)
                 /\ pc' = "copy"
                 /\ UNCHANGED <<ret, abort>>
    /\ UNCHANGED <<fnvars, dry_run, days_idle, run, i, pdf_path, attempt,
                   session, processed, fsvars, created, selected, visited,
                   wrote, failed, tries, sleeps, any_fail, row0, db_errors>>

\* mutant: a failed copy returns (0, 0) like the other early returns
CopyHistoryFail_Zero ==
    /\ pc = "copy"
    /\ \E partial \in BOOLEAN :
         /\ tmp_history' = IF partial THEN tmp_history \cup {ThisRun}
                                     ELSE tmp_history
         /\ created' = IF partial /\ ThisRun \notin tmp_history
                       THEN created \cup {"tmp_history"} ELSE created
    /\ ret' = <<0, 0>> /\ abort' = "copy" /\ pc' = "done"
    /\ UNCHANGED <<fnvars, cfgvars, run, fetched, i, pdf_path, attempt, session,
                   processed, day_dir, index, disk, rows, closes, selected,
                   visited, wrote, failed, tries, sleeps, any_fail, row0, db_errors>>

\* shutil.copy2 raises: return 0, len(page_tabs).  The copy may have
\* created the destination before it failed.
CopyHistoryFail ==
    /\ pc = "copy"
    /\ \E partial \in BOOLEAN :
         /\ tmp_history' = IF partial THEN tmp_history \cup {ThisRun}
                                     ELSE tmp_history
         /\ created' = IF partial /\ ThisRun \notin tmp_history
                       THEN created \cup {"tmp_history"} ELSE created
    /\ ret' = <<0, Len(page_tabs)>> /\ abort' = "copy" /\ pc' = "done"
    /\ UNCHANGED <<fnvars, cfgvars, run, fetched, i, pdf_path, attempt, session,
                   processed, day_dir, index, disk, rows, closes, selected,
                   visited, wrote, failed, tries, sleeps, any_fail, row0, db_errors>>

\* shutil.copy2(self.history_path, tmp_history); processed = 0
CopyHistory ==
    /\ pc = "copy"
    /\ tmp_history' = tmp_history \cup {ThisRun}
    /\ created' = IF ThisRun \in tmp_history THEN created
                  ELSE created \cup {"tmp_history"}
    /\ processed' = 0 /\ i' = 1 /\ pc' = "loop"
    /\ UNCHANGED <<fnvars, cfgvars, run, fetched, pdf_path, attempt, session, ret,
                   day_dir, index, disk, rows, closes, selected, visited,
                   wrote, failed, tries, sleeps, any_fail, abort, row0, db_errors>>

InLoop == pc = "loop" /\ i <= Len(page_tabs)

\* continue: the loop goes on to the next tab
Continue ==
    /\ visited' = visited \cup {Tab.id}
    /\ i' = i + 1
    /\ pc' = "loop"

\* if not url or url.startswith((...)): continue
SkipUrl ==
    /\ InLoop
    /\ IsSkippedUrl(Tab.url)
    /\ Continue
    /\ UNCHANGED <<fnvars, cfgvars, run, fetched, pdf_path, attempt, session, processed,
                   ret, fsvars, created, selected, wrote, failed, tries,
                   sleeps, any_fail, abort, row0, db_errors>>

\* last_visit = self.get_tab_history(url, tmp_history) returns None, for
\* no row or for a query that raised sqlite3.Error; if not last_visit: continue
SkipNoHistory ==
    /\ InLoop
    /\ ~IsSkippedUrl(Tab.url)
    /\ \E db_ok \in BOOLEAN :
         /\ ~(db_ok /\ LookupRaises(Tab.url))
         /\ get_tab_history(Tab.url, db_ok) = NoEntry
         /\ db_errors' = IF db_ok THEN db_errors ELSE db_errors \cup {Tab.id}
    /\ Continue
    /\ UNCHANGED <<fnvars, cfgvars, run, fetched, pdf_path, attempt, session, processed,
                   ret, fsvars, created, selected, wrote, failed, tries,
                   sleeps, any_fail, abort, row0>>

\* the row holds NULL: chrome_ts raises TypeError inside get_tab_history,
\* the finally clause unlinks the copy and process_tabs raises
LookupTypeError ==
    /\ InLoop
    /\ ~IsSkippedUrl(Tab.url)
    /\ LookupRaises(Tab.url)
    /\ tmp_history' = tmp_history \ {ThisRun}
    /\ abort' = "type_error"
    /\ pc' = "raised"
    /\ UNCHANGED <<fnvars, cfgvars, run, fetched, i, pdf_path, attempt, session,
                   processed, ret, day_dir, index, disk, rows, closes, created,
                   selected, visited, wrote, failed, tries, sleeps, any_fail,
                   row0, db_errors>>

\* if last_visit > cutoff: continue
SkipFresh ==
    /\ InLoop
    /\ ~IsSkippedUrl(Tab.url)
    /\ ~LookupRaises(Tab.url)
    /\ get_tab_history(Tab.url, TRUE) # NoEntry
    /\ IsFresh(get_tab_history(Tab.url, TRUE)[1], cutoff)
    /\ Continue
    /\ UNCHANGED <<fnvars, cfgvars, run, fetched, pdf_path, attempt, session, processed,
                   ret, fsvars, created, selected, wrote, failed, tries,
                   sleeps, any_fail, abort, row0, db_errors>>

\* mutant: the loop does not look at dry_run
IsDryRun_Never == FALSE

\* if self.config.dry_run: processed += 1; continue
IsDryRun == dry_run

\* the tab is idle: its path is chosen; a dry run counts it and goes on,
\* otherwise snap_and_close_tab is entered
Select ==
    /\ InLoop
    /\ ~IsSkippedUrl(Tab.url)
    /\ ~LookupRaises(Tab.url)
    /\ get_tab_history(Tab.url, TRUE) # NoEntry
    /\ ~IsFresh(get_tab_history(Tab.url, TRUE)[1], cutoff)
    /\ pdf_path' = ChoosePath(Tab.title, disk)
    /\ selected' = selected \cup {Tab.id}
    /\ IF IsDryRun
       THEN /\ processed' = processed + 1
            /\ Continue
            /\ UNCHANGED <<attempt, tries, sleeps>>
       ELSE /\ pc' = "launch"
            /\ attempt' = 0 /\ tries' = 0 /\ sleeps' = 0
            /\ UNCHANGED <<processed, i, visited>>
    /\ UNCHANGED <<fnvars, cfgvars, run, fetched, session, ret, fsvars, created, wrote,
                   failed, any_fail, abort, row0, db_errors>>

\* finally: tmp_history.unlink(missing_ok=True); return processed, len(page_tabs)
Finish ==
    /\ pc = "loop" /\ i > Len(page_tabs)
    /\ tmp_history' = tmp_history \ {ThisRun}
    /\ ret' = <<processed, Len(page_tabs)>>
    /\ pc' = "done"
    /\ UNCHANGED <<fnvars, cfgvars, run, fetched, i, pdf_path, attempt, session,
                   processed, day_dir, index, disk, rows, closes, logvars>>

(***************************************************************************)
(* snap_and_close_tab: one rendering session per attempt.  The session is  *)
(* what `async with async_playwright()` holds from the entry of the block  *)
(* (the driver, then the browser launched inside it); the exit of the      *)
(* block, by return or by exception, ends it.                              *)
(***************************************************************************)
Rendering == pc \in {"browser_launch", "new_page", "goto", "pdf",
                     "close_browser", "close_tab", "exit", "unwind"}

\* an await inside the block raises (after `await browser.close(); raise e`
\* where the inner except applies): the exception is on its way out of
\* the block, whose exit is still to be awaited
Fail ==
    /\ any_fail' = TRUE
    /\ pc' = "unwind"

\* mutant: an exception leaves the session of the attempt open
Raise_Leak ==
    /\ pc = "unwind"
    /\ session' = session
    /\ pc' = "except"
    /\ UNCHANGED <<fnvars, cfgvars, run, fetched, i, pdf_path, attempt, processed, ret,
                   fsvars, logvars>>

\* the exception leaves the `async with` block, whose exit ends the
\* session, and reaches `except Exception`
Raise ==
    /\ pc = "unwind"
    /\ session' = session - 1
    /\ pc' = "except"
    /\ UNCHANGED <<fnvars, cfgvars, run, fetched, i, pdf_path, attempt, processed, ret,
                   fsvars, logvars>>

\* async with async_playwright() as p: the block is entered, the driver
\* is up
Enter ==
    /\ pc = "launch" /\ attempt < max_retries
    /\ session' = session + 1
    /\ tries' = tries + 1
    /\ pc' = "browser_launch"
    /\ UNCHANGED <<fnvars, cfgvars, run, fetched, i, pdf_path, attempt, processed, ret,
                   fsvars, created, selected, visited, wrote, failed, sleeps,
                   any_fail, abort, row0, db_errors>>

\* entering the block raises: there is no block to leave
EnterFail ==
    /\ pc = "launch" /\ attempt < max_retries
    /\ tries' = tries + 1
    /\ any_fail' = TRUE
    /\ pc' = "except"
    /\ UNCHANGED <<fnvars, cfgvars, run, fetched, i, pdf_path, attempt, session,
                   processed, ret, fsvars, created, selected, visited, wrote,
                   failed, sleeps, abort, row0, db_errors>>

\* browser = await p.chromium.launch(headless=True)
Launch ==
    /\ pc = "browser_launch"
    /\ pc' = "new_page"
    /\ UNCHANGED <<fnvars, cfgvars, run, fetched, i, pdf_path, attempt, session,
                   processed, ret, fsvars, logvars>>

\* the launch raises inside the block, with the driver up and no browser
LaunchFail ==
    /\ pc = "browser_launch"
    /\ Fail
    /\ UNCHANGED <<fnvars, cfgvars, run, fetched, i, pdf_path, attempt, session,
                   processed, ret, fsvars, created, selected, visited, wrote,
                   failed, tries, sleeps, abort, row0, db_errors>>

\* page = await browser.new_page()
NewPage ==
    /\ pc = "new_page"
    /\ pc' = "goto"
    /\ UNCHANGED <<fnvars, cfgvars, run, fetched, i, pdf_path, attempt, session,
                   processed, ret, fsvars, logvars>>

\* new_page raises, outside the inner try: browser.close() is not called,
\* the block's exit stops the driver and the browser with it
NewPageFail ==
    /\ pc = "new_page"
    /\ Fail
    /\ UNCHANGED <<fnvars, cfgvars, run, fetched, i, pdf_path, attempt, session, processed,
                   ret,
                   fsvars, created, selected, visited, wrote, failed, tries,
                   sleeps, abort, row0, db_errors>>

\* page.goto succeeds, at once or in the fallback of the inner except
Goto ==
    /\ pc = "goto"
    /\ pc' = "pdf"
    /\ UNCHANGED <<fnvars, cfgvars, run, fetched, i, pdf_path, attempt, session,
                   processed, ret, fsvars, logvars>>

\* the fallback navigation raises too: browser.close(); raise e
GotoFail ==
    /\ pc = "goto"
    /\ Fail
    /\ UNCHANGED <<fnvars, cfgvars, run, fetched, i, pdf_path, attempt, session, processed,
                   ret,
                   fsvars, created, selected, visited, wrote, failed, tries,
                   sleeps, abort, row0, db_errors>>

\* await page.pdf(path=str(pdf_path), ...) writes the file
Pdf ==
    /\ pc = "pdf"
    /\ disk' = disk \cup {pdf_path}
    /\ wrote' = wrote \cup {Tab.id}
    /\ created' = created \cup {"pdf"}
    /\ pc' = "close_browser"
    /\ UNCHANGED <<fnvars, cfgvars, run, fetched, i, pdf_path, attempt, session,
                   processed, ret, day_dir, index, tmp_history, rows, closes,
                   selected, visited, failed, tries, sleeps, any_fail, abort,
                   row0, db_errors>>

\* page.pdf raises and writes nothing: browser.close(); raise e
PdfFail ==
    /\ pc = "pdf"
    /\ Fail
    /\ UNCHANGED <<fnvars, cfgvars, run, fetched, i, pdf_path, attempt, session, processed,
                   ret,
                   fsvars, created, selected, visited, wrote, failed, tries,
                   sleeps, abort, row0, db_errors>>

\* await browser.close(), after the PDF was written
BrowserClose ==
    /\ pc = "close_browser"
    /\ pc' = "close_tab"
    /\ UNCHANGED <<fnvars, cfgvars, run, fetched, i, pdf_path, attempt, session,
                   processed, ret, fsvars, logvars>>

\* browser.close() raises after the PDF was written: the inner except
\* closes again and re-raises, the attempt counts as failed
BrowserCloseFail ==
    /\ pc = "close_browser"
    /\ Fail
    /\ UNCHANGED <<fnvars, cfgvars, run, fetched, i, pdf_path, attempt, session, processed,
                   ret,
                   fsvars, created, selected, visited, wrote, failed, tries,
                   sleeps, abort, row0, db_errors>>

\* if not dry_run and tab_id: requests.post(close_url) (an exception of the
\* request is logged and swallowed); the block is still to be left
CloseTab ==
    /\ pc = "close_tab"
    /\ closes' = IF ~dry_run /\ Tab.id # 0 THEN Append(closes, Tab.id) ELSE closes
    /\ pc' = "exit"
    /\ UNCHANGED <<fnvars, cfgvars, run, fetched, i, pdf_path, attempt, session,
                   processed, ret, day_dir, index, tmp_history, disk, rows,
                   logvars>>

\* return True: the exit of the `async with` block completes and
\* snap_and_close_tab returns True
ExitBlock ==
    /\ pc = "exit"
    /\ session' = session - 1
    /\ pc' = "store"
    /\ UNCHANGED <<fnvars, cfgvars, run, fetched, i, pdf_path, attempt, processed, ret,
                   fsvars, logvars>>

\* return True: the exit of the `async with` block raises, outside the
\* inner try; `except Exception` takes the attempt as failed although the
\* close request was sent
ExitBlockFail ==
    /\ pc = "exit"
    /\ session' = session - 1
    /\ any_fail' = TRUE
    /\ pc' = "except"
    /\ UNCHANGED <<fnvars, cfgvars, run, fetched, i, pdf_path, attempt, processed, ret,
                   fsvars, created, selected, visited, wrote, failed, tries,
                   sleeps, abort, row0, db_errors>>

\* except Exception: if attempt < max_retries - 1: await asyncio.sleep(1)
ExceptRetry ==
    /\ pc = "except" /\ attempt < max_retries - 1
    /\ sleeps' = sleeps + 1
    /\ attempt' = attempt + 1
    /\ pc' = "launch"
    /\ UNCHANGED <<fnvars, cfgvars, run, fetched, i, pdf_path, session, processed, ret,
                   fsvars, created, selected, visited, wrote, failed, tries,
                   any_fail, abort, row0, db_errors>>

\* mutant: the last failure ends the batch, the tabs after it are not looked at
ExceptGiveUp_Fatal ==
    /\ pc = "except" /\ ~(attempt < max_retries - 1)
    /\ attempt' = attempt + 1
    /\ failed' = failed \cup {Tab.id}
    /\ visited' = visited \cup {Tab.id}
    /\ tmp_history' = tmp_history \ {ThisRun}
    /\ ret' = <<processed, Len(page_tabs)>>
    /\ pc' = "done"
    /\ UNCHANGED <<fnvars, cfgvars, run, fetched, i, pdf_path, session, processed,
                   day_dir, index, disk, rows, closes, created, selected, wrote,
                   tries, sleeps, any_fail, abort, row0, db_errors>>

\* the last attempt failed: return False; process_tabs logs and goes on
ExceptGiveUp ==
    /\ pc = "except" /\ ~(attempt < max_retries - 1)
    /\ attempt' = attempt + 1
    /\ failed' = failed \cup {Tab.id}
    /\ Continue
    /\ UNCHANGED <<fnvars, cfgvars, run, fetched, pdf_path, session, processed, ret,
                   fsvars, created, selected, wrote, tries, sleeps, any_fail,
                   abort, row0, db_errors>>

\* the row store_locally appends
Row(tab, path) ==
    [logged_at |-> Now, title |-> tab.title, url |-> tab.url, pdf |-> path]

\* mutant: the row is appended and the tab is not counted
Store_NoCount ==
    /\ pc = "store"
    /\ index' = TRUE
    /\ created' = IF index THEN created ELSE created \cup {"index"}
    /\ rows' = Append(rows, Row(Tab, pdf_path))
    /\ Continue
    /\ UNCHANGED <<fnvars, cfgvars, run, fetched, pdf_path, attempt, session, ret,
                   processed, day_dir, tmp_history, disk, closes, selected,
                   wrote, failed, tries, sleeps, any_fail, abort, row0, db_errors>>

\* if success: self.store_locally(url, title, pdf_path, now); processed += 1
\* (ensure_html_header creates index.html when it is missing)
Store ==
    /\ pc = "store"
    /\ index' = TRUE
    /\ created' = IF index THEN created ELSE created \cup {"index"}
    /\ rows' = Append(rows, Row(Tab, pdf_path))
    /\ processed' = processed + 1
    /\ Continue
    /\ UNCHANGED <<fnvars, cfgvars, run, fetched, pdf_path, attempt, session, ret,
                   day_dir, tmp_history, disk, closes, selected, wrote, failed,
                   tries, sleeps, any_fail, abort, row0, db_errors>>

\* the archiver is run again on the same day, over the same output folder,
\* in the same second or later; a temporary copy left behind stays on disk
Restart ==
    /\ pc \in {"done", "raised"} /\ run < MaxRuns
    /\ \E elapsed \in {0, 1} :
         tmp_history' = {age + elapsed : age \in tmp_history}
    /\ run' = run + 1
    /\ dry_run' \in BOOLEAN
    /\ days_idle' \in DaysIdleValues
    /\ pc' = "start"
    /\ tabs' = <<>> /\ page_tabs' = <<>>
    /\ i' = 0 /\ pdf_path' = <<>> /\ attempt' = 0
    /\ processed' = 0 /\ ret' = NoResult
    /\ closes' = <<>> /\ db_errors' = {}
    /\ created' = {} /\ selected' = {} /\ visited' = {} /\ wrote' = {}
    /\ failed' = {} /\ tries' = 0 /\ sleeps' = 0 /\ any_fail' = FALSE
    /\ abort' = "none"
    /\ row0' = Len(rows)
    /\ UNCHANGED <<fnvars, fetched, session, day_dir, index, disk, rows>>

Next ==
    \/ NoHistoryFile \/ MakeDayDir \/ GetOpenTabsFail \/ GetOpenTabs
    \/ CopyHistoryFail \/ CopyHistory
    \/ SkipUrl \/ SkipNoHistory \/ LookupTypeError \/ SkipFresh \/ Select
    \/ Finish
    \/ Enter \/ EnterFail \/ Launch \/ LaunchFail \/ Raise
    \/ NewPage \/ NewPageFail \/ Goto \/ GotoFail
    \/ Pdf \/ PdfFail \/ BrowserClose \/ BrowserCloseFail \/ CloseTab
    \/ ExitBlock \/ ExitBlockFail
    \/ ExceptRetry \/ ExceptGiveUp \/ Store \/ Restart

NextFn == Sanitize \/ SanitizeDebug

Spec   == Init /\ [][Next]_vars
SpecFn == InitFn /\ [][NextFn]_vars

(***************************************************************************)
(* Definitions the properties share.                                       *)
(***************************************************************************)
Done      == pc = "done"
Completed == Done /\ abort = "none"

\* the rows this run appended to the index
Appended == SubSeq(rows, row0 + 1, Len(rows))

RowFiles == {rows[k].pdf : k \in 1..Len(rows)}

PageIds == {page_tabs[k].id : k \in 1..Len(page_tabs)}

\* the last visit of a tab as a datetime; only for tabs with a history row
LastVisit(tab) == CHROME_EPOCH + History(tab.url)[1][1]

\* the tab reaches the staleness comparison of process_tabs: its URL is
\* looked up and the lookup returns a last-visit time
Compared(tab) ==
    /\ tab.url # <<>>
    /\ tab.url[1] \notin InternalPrefixes
    /\ History(tab.url) # NoEntry
    /\ History(tab.url) # NullRow
    /\ tab.id \notin db_errors

Decided(tab) == tab.id \in visited \cup selected

NothingDone ==
    /\ visited = {} /\ selected = {} /\ wrote = {} /\ failed = {}
    /\ tries = 0 /\ closes = <<>> /\ Len(rows) = row0 /\ session = 0

(***************************************************************************)
(* C1: after any run of process_tabs, an index row exists for a snapshot   *)
(* file if and only if page.pdf wrote that file: the files named by the    *)
(* rows are exactly the PDF files in the day folder.                       *)
(* Fails: browser.close() raising after page.pdf leaves the file, and the  *)
(* attempt counts as failed, so no row is written for it.                  *)
(***************************************************************************)
C1_RecordIffSnapshot == Done => RowFiles = disk

(***************************************************************************)
(* C2 as stated: a page tab with a history entry is selected iff its last  *)
(* visit is strictly before the cutoff now - days_idle.                    *)
(***************************************************************************)
C2_SelectedIffStrictlyBefore ==
    \A k \in 1..Len(page_tabs) :
        LET tab == page_tabs[k]
        IN  (Decided(tab) /\ Compared(tab)) =>
                (tab.id \in selected <=> LastVisit(tab) < Now - days_idle * TicksPerDay)

(***************************************************************************)
(* C2 amended: a page tab that reaches the comparison (its URL is not      *)
(* empty and not browser-internal, and the history lookup returns a last-  *)
(* visit time for it) is selected iff its last visit is at or before the   *)
(* cutoff now - days_idle; a tab whose last visit equals the cutoff is     *)
(* selected.  A tab whose lookup finds no row or fails is never selected.  *)
(***************************************************************************)
C2_SelectedIffNotAfter ==
    \A k \in 1..Len(page_tabs) :
        LET tab == page_tabs[k]
        IN  Decided(tab) =>
                IF Compared(tab)
                THEN tab.id \in selected
                         <=> LastVisit(tab) <= Now - days_idle * TicksPerDay
                ELSE tab.id \notin selected

\* a tab last visited exactly at the cutoff has been selected, and a tab
\* visited one tick after the cutoff has been passed over
C2_Witness ==
    /\ Done /\ db_errors = {}
    /\ \E k \in 1..Len(page_tabs) :
         /\ Compared(page_tabs[k])
         /\ LastVisit(page_tabs[k]) = Now - days_idle * TicksPerDay
         /\ page_tabs[k].id \in selected
    /\ \E k \in 1..Len(page_tabs) :
         /\ Compared(page_tabs[k])
         /\ LastVisit(page_tabs[k]) = Now - days_idle * TicksPerDay + 1
         /\ page_tabs[k].id \in visited \ selected

(***************************************************************************)
(* C3 as stated: a dry run creates no file or directory at all, the        *)
(* temporary history copy included, and sends no tab-close request.        *)
(***************************************************************************)
C3_DryRunCreatesNothing ==
    dry_run => (created = {} /\ closes = <<>>)

(***************************************************************************)
(* C3 amended: a dry run creates nothing under the output folder (no day   *)
(* folder, no PDF, no index file), launches no render and sends no         *)
(* tab-close request, for any number of qualifying tabs; the one file it   *)
(* creates is the temporary copy of the history store, which is gone again *)
(* when the run returns after its loop.                                    *)
(***************************************************************************)
C3_DryRunCreatesOnlyHistoryCopy ==
    dry_run =>
        /\ created \subseteq {"tmp_history"}
        /\ Completed => ThisRun \notin tmp_history
        /\ closes = <<>> /\ wrote = {} /\ tries = 0 /\ session = 0
        /\ Len(rows) = row0
        /\ (run = 1 => (~day_dir /\ ~index /\ disk = {}))

\* a dry run over qualifying tabs has returned, having made the history copy
C3_Witness ==
    /\ Completed /\ dry_run
    /\ selected # {}
    /\ ret[1] = Cardinality(selected)
    /\ created = {"tmp_history"}

(***************************************************************************)
(* C4: tabs whose titles sanitize to the same name, archived into the same *)
(* day folder in one run or in successive runs, get distinct PDF names:    *)
(* the path chosen for a tab is not the path of a file already in the day  *)
(* folder, and no two rows of the index name the same file.                *)
(***************************************************************************)
C4_DistinctPaths ==
    /\ \A j, k \in 1..Len(rows) : j # k => rows[j].pdf # rows[k].pdf
    /\ (pc \in {"launch", "browser_launch", "new_page", "goto", "pdf", "unwind",
                "except"} /\ Tab.id \notin wrote)
           => pdf_path \notin disk
    /\ (dry_run /\ pdf_path # <<>>) => pdf_path \notin disk

\* a second run archived a tab whose title sanitizes to the name a tab of
\* the first run was stored under; the two rows name different files
C4_Witness ==
    /\ run = 2 /\ row0 = 1 /\ Len(rows) = 2
    /\ rows[1].title # rows[2].title
    /\ safe_filename(rows[1].title, max_filename_length)
         = safe_filename(rows[2].title, max_filename_length)
    /\ rows[1].pdf # rows[2].pdf
    /\ {rows[1].pdf, rows[2].pdf} \subseteq disk

(***************************************************************************)
(* C5 as stated: for any text and any max_length the result of             *)
(* safe_filename has no reserved character, is at most max_length long and *)
(* is not empty.                                                           *)
(***************************************************************************)
Returned == pc \in {"fn_done", "fn_done_debug"}

NoReservedChar(s) == \A k \in 1..Len(s) : s[k] \notin Reserved

C5_SafeForAnyMaxLength ==
    Returned =>
        /\ NoReservedChar(result)
        /\ Len(result) <= max_length
        /\ result # <<>>

(***************************************************************************)
(* C5 amended: for any text and any max_length the result has no reserved  *)
(* character and is never empty (it is "untitled" when sanitizing leaves   *)
(* nothing); its length is at most max_length whenever max_length is at    *)
(* least 8, the length of the fallback token, and for a max_length from 0  *)
(* to 7 the only result longer than max_length is the fallback token.      *)
(***************************************************************************)
C5_SafeFromFallbackLength ==
    Returned =>
        /\ NoReservedChar(result)
        /\ result # <<>>
        /\ (max_length >= Len(Untitled) => Len(result) <= max_length)
        /\ ((max_length >= 0 /\ Len(result) > max_length) => result = Untitled)

\* a text with a reserved character, longer than max_length >= 8 once
\* cleaned, has been cut at a word boundary
C5_Witness ==
    /\ pc = "fn_done"
    /\ max_length >= Len(Untitled)
    /\ \E k \in 1..Len(text) : text[k] \in Reserved
    /\ Len(KeepAllowed(ReplaceReserved(text))) > max_length
    /\ Len(result) < max_length
    /\ result # Untitled

(***************************************************************************)
(* C6: a render failure of a tab is never fatal to the batch.  At most     *)
(* max_retries attempts are made for a tab, with one sleep between two     *)
(* attempts and none after the last; after the last attempt failed the     *)
(* tab counts as failed and gets no row, the loop goes on, and the run     *)
(* returns having looked at every page tab, the failed ones left out of    *)
(* the processed count.  A raised exception always finds its handler, and  *)
(* process_tabs raises only where a history lookup raises, never because   *)
(* of a render.                                                            *)
(***************************************************************************)
C6_RenderFailureNotFatal ==
    /\ tries <= max_retries
    /\ (pc = "launch" => sleeps = tries)
    /\ ((pc # "launch" /\ tries > 0) => sleeps = tries - 1)
    /\ failed \subseteq visited
    /\ (pc = "loop" /\ (i - 1) \in 1..Len(page_tabs)
            /\ page_tabs[i - 1].id \in failed)
           => (tries = max_retries /\ sleeps = max_retries - 1)
    /\ Completed =>
         /\ visited = PageIds
         /\ ret[2] = Len(page_tabs)
         /\ (~dry_run => ret[1] = Cardinality(selected \ failed))
         /\ (~dry_run => Len(Appended) = Cardinality(selected \ failed))
    /\ pc = "except" => ENABLED (ExceptRetry \/ ExceptGiveUp)
    /\ pc = "raised" =>
         (abort = "type_error" /\ LookupRaises(Tab.url) /\ Tab.id \notin failed)

\* the first tab failed all its attempts and the tab after it was archived
C6_Witness ==
    /\ Completed
    /\ Len(page_tabs) = 2
    /\ page_tabs[1].id \in failed
    /\ page_tabs[2].id \in selected \ failed
    /\ ret = <<1, 2>>
    /\ Len(Appended) = 1

(***************************************************************************)
(* C7 as stated: a history-copy failure returns processed = 0 and total =  *)
(* the number of tabs of the fetched tab list.                             *)
(***************************************************************************)
C7_CopyFailureCountsAllTabs ==
    (Done /\ abort = "copy") => ret = <<0, Len(tabs)>>

(***************************************************************************)
(* C7 amended: when the run aborts early it reports zero processed and has *)
(* rendered no tab, closed no tab and appended no row.  A connectivity     *)
(* failure returns (0, 0) before any tab is looked at; a history-copy      *)
(* failure returns (0, n) where n is the number of tabs of type "page" in  *)
(* the fetched list, tabs of other types not being counted.                *)
(***************************************************************************)
NumPageTabs == Cardinality({k \in 1..Len(tabs) : tabs[k].type = "page"})

C7_EarlyAbort ==
    /\ (Done /\ abort = "connect") =>
           (ret = <<0, 0>> /\ tabs = <<>> /\ NothingDone)
    /\ (Done /\ abort = "copy") =>
           (ret = <<0, NumPageTabs>> /\ tabs # <<>> /\ NothingDone)

\* the copy failed after a list of two tabs, one of them not a page, was fetched
C7_Witness ==
    /\ Done /\ abort = "copy"
    /\ Len(tabs) = 2
    /\ ret = <<0, 1>>

(***************************************************************************)
(* C8: the close request for a tab is sent only once its snapshot has      *)
(* succeeded: the tab's PDF was written before, the request is sent at     *)
(* most once per tab whatever the number of attempts, and never for a tab  *)
(* whose attempts all failed; a tab being retried has had no request.      *)
(* Fails: the exit of the `async with` block raising after the request was *)
(* sent fails the attempt, so the retry sends the request again, and a tab *)
(* whose attempts all fail this way was asked to close each time.          *)
(***************************************************************************)
C8_CloseAfterSnapshot ==
    /\ \A k \in 1..Len(closes) :
         /\ closes[k] \in wrote
         /\ closes[k] \notin failed
         /\ \A j \in 1..Len(closes) : j # k => closes[j] # closes[k]
    /\ (pc \in {"launch", "browser_launch", "new_page", "goto", "pdf",
                "close_browser", "close_tab", "unwind", "except"})
           => \A k \in 1..Len(closes) : closes[k] # Tab.id

(***************************************************************************)
(* C9 as stated: in a non-dry run in which every render succeeds the tabs  *)
(* archived are exactly the open page tabs idle longer than the threshold  *)
(* (of the tabs that reach the comparison, those whose last visit is       *)
(* strictly before the cutoff), one row each.                              *)
(***************************************************************************)
IdleLonger(tab) ==
    Compared(tab) /\ LastVisit(tab) < Now - days_idle * TicksPerDay

TitleUrl(seq) == [k \in 1..Len(seq) |-> <<seq[k].title, seq[k].url>>]

AllRendersSucceeded == Completed /\ ~dry_run /\ ~any_fail

C9_ArchivesIdleLonger ==
    AllRendersSucceeded =>
        /\ TitleUrl(Appended) = TitleUrl(SelectSeq(page_tabs, IdleLonger))
        /\ ret[1] = Len(Appended)

(***************************************************************************)
(* C9 amended: in a non-dry run that returns after its loop and in which   *)
(* every render succeeds the tabs archived are exactly the open page tabs  *)
(* with a URL that is not empty and not browser-internal for which the     *)
(* history lookup returns a last-visit time at or before the cutoff (idle  *)
(* for at least the threshold); each appears as exactly one row, in list   *)
(* order and under a file of its own, and the processed count equals the   *)
(* number of rows appended.  For two tabs idle 20 days and 1 day with      *)
(* days = 14 and both lookups succeeding, exactly 1 tab is archived and    *)
(* exactly 1 row is appended.                                              *)
(***************************************************************************)
IdleAtLeast(tab) ==
    Compared(tab) /\ LastVisit(tab) <= Now - days_idle * TicksPerDay

TwentyAndOne ==
    /\ Len(tabs) = 2
    /\ tabs[1].type = "page" /\ tabs[2].type = "page"
    /\ tabs[1].url = UrlOld /\ tabs[2].url = UrlNew
    /\ History(UrlOld) = UrlsRow(Now - 20 * TicksPerDay)
    /\ History(UrlNew) = UrlsRow(Now - 1 * TicksPerDay)
    /\ db_errors = {}
    /\ days_idle = 14

C9_ArchivesIdleAtLeast ==
    AllRendersSucceeded =>
        /\ TitleUrl(Appended) = TitleUrl(SelectSeq(page_tabs, IdleAtLeast))
        /\ ret[1] = Len(Appended)
        /\ ret[2] = Len(page_tabs)
        /\ \A j, k \in 1..Len(Appended) : j # k => Appended[j].pdf # Appended[k].pdf
        /\ \A k \in 1..Len(Appended) : Appended[k].pdf \in disk
        /\ TwentyAndOne => (ret = <<1, 2>> /\ Len(Appended) = 1
                              /\ Appended[1].url = UrlOld)

\* the run over the tabs idle 20 days and 1 day, with days = 14, has returned
C9_Witness ==
    /\ AllRendersSucceeded
    /\ TwentyAndOne
    /\ ret = <<1, 2>>
    /\ Len(rows) = row0 + 1

(***************************************************************************)
(* C10: each render attempt has a rendering session of its own: at most    *)
(* one session is open at any time, one is open exactly while an attempt   *)
(* is between the entry and the exit of its `async with` block, and none   *)
(* is open when the next attempt starts or when snap_and_close_tab has     *)
(* returned, whether the attempt succeeded or failed.                      *)
(***************************************************************************)
C10_OneSessionPerAttempt ==
    /\ session \in {0, 1}
    /\ Rendering <=> session = 1

\* the third attempt of the second tab holds the only session, after the
\* first tab failed all its attempts
C10_Witness ==
    /\ pc = "close_tab" /\ session = 1
    /\ i = 2 /\ attempt = 2
    /\ failed # {}

====
